---- MODULE Spec2Model ----
(***************************************************************************)
(* The BLS OEWS record-reconciliation pipeline of src/src/process_bls.py:  *)
(* the two lookup loaders, the header normaliser, the SOC crosswalk, the   *)
(* peer-group mapping, the null replacement, the per-file driver           *)
(* (clean_bls) and the split by o_group (split_bls_ogroup).                *)
(*                                                                         *)
(* A data frame is a sequence of rows; a row is a function from column     *)
(* name to cell value.  A python dict is a function with a finite domain.  *)
(* The pandas index is not modelled: read_excel gives every file a unique  *)
(* RangeIndex, so the index-aligned assignment of map_soc line 117 is      *)
(* row-by-row.  Each row carries one ghost column, "src" = <<file, row>>,  *)
(* the file it was read from and its position there; no operation reads it.*)
(***************************************************************************)
EXTENDS Integers, Sequences, FiniteSets, TLC

VARIABLES
    pc,           \* position in process_bls / clean_bls
    xwalk_file,   \* lookups/oes_2019_hybrid_structure.xlsx on disk
    msa_file,     \* lookups/lk_msa.xlsx on disk
    soc_lookup,   \* clean_bls local: result of load_oes_lookup
    msa_lookup,   \* clean_bls local: result of load_msa_lookup
    inputs,       \* ghost: the files processed so far, as normalised by much_consistency
    df_merged,    \* clean_bls local: the running merged data frame
    bls_total,    \* process_bls locals: the three output frames
    bls_major,
    bls_detailed,
    error,        \* the exception that escaped the run, "" when none did
    call          \* a direct call of map_soc: its arguments and its result

vars == <<pc, xwalk_file, msa_file, soc_lookup, msa_lookup, inputs, df_merged,
          bls_total, bls_major, bls_detailed, error, call>>

(***************************************************************************)
(* Values                                                                  *)
(***************************************************************************)
NaN == "NaN"                       \* np.nan, a missing cell
None == [None |-> TRUE]            \* python None
\* a reference file on disk: readable with its table, absent, or without the
\* expected columns (read_excel or the column access raises)
File(table) == [state |-> "ok", table |-> table]
Missing == [state |-> "missing", table |-> <<>>]
Malformed == [state |-> "malformed", table |-> <<>>]
CatchAll == "All Other MSA"

\* Bounds of the model
MaxRecords == 3      \* rows read by one run of clean_bls, over all its files
MaxXwalkRows == 2    \* rows of the crosswalk table
MaxBatch == 2        \* rows of the frame handed to a direct call of map_soc
YearMargin == 1      \* report years tried before 2014 and after 2019

SeqsUpTo(S, n) == UNION {[1..k -> S] : k \in 0..n}
NonEmptySeqsUpTo(S, n) == UNION {[1..k -> S] : k \in 1..n}

\* pandas Series.map(dict): a key the dict lacks maps to NaN
Get(d, k) == IF k \in DOMAIN d THEN d[k] ELSE NaN

\* df[col] = value on one row
SetCol(r, c, v) == (c :> v) @@ r

\* dict(zip(keys, vals)) over the rows of a table: a later row wins
DictZip(table, kcol, vcol) ==
    [k \in {table[i][kcol] : i \in DOMAIN table} |->
        LET last == CHOOSE i \in DOMAIN table :
                        /\ table[i][kcol] = k
                        /\ \A j \in DOMAIN table : table[j][kcol] = k => j <= i
        IN  table[last][vcol]]

(***************************************************************************)
(* load_msa_lookup, load_oes_lookup                                        *)
(***************************************************************************)
load_msa_lookup(file) ==
    IF file.state # "ok"
    THEN None
    ELSE DictZip(file.table, "area", "peer_type")

load_oes_lookup(file) ==
    IF file.state # "ok"
    THEN None
    ELSE LET df == file.table
         IN  ("1019" :> DictZip(df, "soc_code_2010", "oes_code_2019")) @@
             ("1819" :> DictZip(df, "oes_code_2018", "oes_code_2019")) @@
             ("1919" :> DictZip(df, "oes_code_2019", "oes_code_2019")) @@
             ("19"   :> DictZip(df, "oes_code_2019", "oes_title_2019"))

(***************************************************************************)
(* much_consistency                                                        *)
(***************************************************************************)
\* str.lower on the column names that occur in the input files
Lower(c) ==
    CASE c = "AREA"      -> "area"
      [] c = "OCC_CODE"  -> "occ_code"
      [] c = "OCC_TITLE" -> "occ_title"
      [] c = "OCC_GROUP" -> "occ_group"
      [] c = "O_GROUP"   -> "o_group"
      [] OTHER           -> c

Rename(c) ==
    CASE c = "occ_group"    -> "o_group"
      [] c = "loc quotient" -> "loc_quotient"
      [] c = "area_name"    -> "area_title"
      [] OTHER              -> c

NormCol(c) == Rename(Lower(c))

much_consistency(df) ==
    [i \in DOMAIN df |->
        [k \in {NormCol(c) : c \in DOMAIN df[i]} |->
            df[i][CHOOSE c \in DOMAIN df[i] : NormCol(c) = k]]]

\* the columns of a file after much_consistency, from its header row
NormalisedColumns(header) == {NormCol(header[k]) : k \in DOMAIN header}

(***************************************************************************)
(* map_soc                                                                 *)
(***************************************************************************)
\* lines 107-114: the key of soc_lookup that soc_mappings is bound to
SelectGenerationByCutoff(report_year) ==
    IF report_year <= 2016 THEN "1019"
    ELSE IF report_year \in {2017, 2018} THEN "1819"
    ELSE "1919"

SelectGeneration(report_year) ==
    IF report_year \in {2014, 2015, 2016} THEN "1019"
    ELSE IF report_year \in {2017, 2018} THEN "1819"
    ELSE IF report_year >= 2019 THEN "1919"
    ELSE "1919"

IsDetailed(r) == r["o_group"] = "detailed"
IsMatched(r) == r["oes_code_2019"] # NaN /\ IsDetailed(r)
IsMissing(r) == r["oes_code_2019"] = NaN /\ IsDetailed(r)
IsTotals(r) == r["o_group"] # "detailed"

ConcatInFrameOrder(df_matched, df_missing) == df_missing \o df_matched

\* pd.concat([df_matched, df_missing])
ConcatCombined(df_matched, df_missing) == df_matched \o df_missing

\* the dict the title of a detailed row is looked up in (line 131)
TitleDict(lookup) == lookup["1919"]

FallbackDictLegacy(lookup) == lookup["1019"]

\* the dict applied to the rows the selected mapping left null (line 122)
FallbackDict(lookup) == lookup["1819"]

TotalsCodeFromCrosswalk(r) == r["oes_code_2019"]

\* line 126: the code given to a row that is not detailed
TotalsCode(r) == r["occ_code"]

map_soc(df, report_year, lookup) ==
    LET soc_mappings == lookup[SelectGeneration(report_year)]
        df1 == [i \in DOMAIN df |->
                   SetCol(df[i], "oes_code_2019",
                          IF IsDetailed(df[i])
                          THEN Get(soc_mappings, df[i]["occ_code"])
                          ELSE NaN)]
        df_matched == SelectSeq(df1, IsMatched)
        df_missing0 == SelectSeq(df1, IsMissing)
        df_missing == [i \in DOMAIN df_missing0 |->
                          SetCol(df_missing0[i], "oes_code_2019",
                                 Get(FallbackDict(lookup), df_missing0[i]["occ_code"]))]
        df_totals0 == SelectSeq(df1, IsTotals)
        df_totals == [i \in DOMAIN df_totals0 |->
                         SetCol(SetCol(df_totals0[i], "oes_code_2019",
                                       TotalsCode(df_totals0[i])),
                                "oes_title_2019", df_totals0[i]["occ_title"])]
        df_combined0 == ConcatCombined(df_matched, df_missing)
        df_combined == [i \in DOMAIN df_combined0 |->
                           SetCol(df_combined0[i], "oes_title_2019",
                                  Get(TitleDict(lookup), df_combined0[i]["oes_code_2019"]))]
    IN  df_combined \o df_totals

(***************************************************************************)
(* map_peer_type, map_nulls                                                *)
(***************************************************************************)
\* lines 151-152: Series.map(msa_lookup), then fillna on the column in place
\* (it acts on the frame: the pandas of the project has no copy-on-write)
map_peer_type(df, lookup) ==
    [i \in DOMAIN df |->
        LET mapped == Get(lookup, df[i]["area"])
        IN  SetCol(df[i], "peer_type", IF mapped = NaN THEN CatchAll ELSE mapped)]

null_replace == {"#", "*", "**"}

map_nulls(df) ==
    [i \in DOMAIN df |->
        [k \in DOMAIN df[i] |->
            IF k = "src" THEN df[i][k]
            ELSE IF df[i][k] \in null_replace THEN NaN ELSE df[i][k]]]

(***************************************************************************)
(* clean_bls line 192: int(re.search(r"(M)([1-9]\d{3,})(_)", str(f))[2])   *)
(* A file name is a sequence of characters.  The result is <<year>> for    *)
(* the leftmost match and <<>> when re.search returns None.                *)
(***************************************************************************)
Digits == {"0", "1", "2", "3", "4", "5", "6", "7", "8", "9"}

DigitVal(c) ==
    CASE c = "0" -> 0 [] c = "1" -> 1 [] c = "2" -> 2 [] c = "3" -> 3
      [] c = "4" -> 4 [] c = "5" -> 5 [] c = "6" -> 6 [] c = "7" -> 7
      [] c = "8" -> 8 [] c = "9" -> 9

\* the length of the run of digits of name that starts at position i
RECURSIVE DigitRun(_, _)
DigitRun(name, i) ==
    IF i <= Len(name) /\ name[i] \in Digits THEN 1 + DigitRun(name, i + 1) ELSE 0

\* int() of the n digits of name that start at position i
RECURSIVE IntOf(_, _, _)
IntOf(name, i, n) ==
    IF n = 0 THEN 0 ELSE IntOf(name, i, n - 1) * 10 + DigitVal(name[i + n - 1])

\* the pattern matches at position i: "M", a digit 1-9, three or more digits
\* (greedy: the whole run, since "_" is no digit), "_"
MatchesAt(name, i) ==
    /\ name[i] = "M"
    /\ i + 1 <= Len(name)
    /\ name[i + 1] \in Digits \ {"0"}
    /\ DigitRun(name, i + 2) >= 3
    /\ i + 2 + DigitRun(name, i + 2) <= Len(name)
    /\ name[i + 2 + DigitRun(name, i + 2)] = "_"

ParseYear(name) ==
    IF \E i \in DOMAIN name : MatchesAt(name, i)
    THEN LET i == CHOOSE k \in DOMAIN name :
                      MatchesAt(name, k) /\ \A j \in DOMAIN name : MatchesAt(name, j) => k <= j
         IN  <<IntOf(name, i + 1, 1 + DigitRun(name, i + 2))>>
    ELSE <<>>

(***************************************************************************)
(* The input files                                                         *)
(***************************************************************************)
\* "MSA_M2016_dl", "MSA_2016_dl" (no M before the year), "M201_dl" (three digits)
NameM2016 == <<"M", "S", "A", "_", "M", "2", "0", "1", "6", "_", "d", "l">>
NameNoPrefix == <<"M", "S", "A", "_", "2", "0", "1", "6", "_", "d", "l">>
NameShortYear == <<"M", "2", "0", "1", "_", "d", "l">>
FileNames == {NameM2016, NameNoPrefix, NameShortYear}

\* the header rows of the input files: the later releases, the earlier releases
\* (upper case, OCC_GROUP), and a file without the group column
HeaderLower == [area |-> "area", occ_code |-> "occ_code",
                occ_title |-> "occ_title", o_group |-> "o_group"]
HeaderUpper == [area |-> "AREA", occ_code |-> "OCC_CODE",
                occ_title |-> "OCC_TITLE", o_group |-> "OCC_GROUP"]
HeaderNoGroup == [area |-> "AREA", occ_code |-> "OCC_CODE", occ_title |-> "OCC_TITLE"]
Headers == {HeaderLower, HeaderUpper, HeaderNoGroup}

Areas == {"28140", "99999"}
DetailedCodes == {"15-1131", "15-1132"}
OccTitle == "Occupation"

\* the rows of an OEWS file: a detailed occupation, the total, a major group,
\* and a level that is none of the three
DataRows ==
    {[area |-> a, occ_code |-> c, occ_title |-> OccTitle, o_group |-> "detailed"] :
        a \in Areas, c \in DetailedCodes}
    \cup {[area |-> a, occ_code |-> "00-0000", occ_title |-> OccTitle, o_group |-> "total"] :
        a \in Areas}
    \cup {[area |-> a, occ_code |-> "15-0000", occ_title |-> OccTitle, o_group |-> "major"] :
        a \in Areas}
    \cup {[area |-> a, occ_code |-> "15-1100", occ_title |-> OccTitle, o_group |-> "minor"] :
        a \in Areas}

\* pd.read_excel(f) of the n-th file: the rows under the file's header
read_excel(header, rows, n) ==
    [i \in DOMAIN rows |->
        ("src" :> <<n, i>>) @@
        [c \in {header[k] : k \in DOMAIN header} |->
            rows[i][CHOOSE k \in DOMAIN header : header[k] = c]]]

\* the crosswalk tables of the pipeline runs: "15-1131" is a 2010 code;
\* "15-1132" is a 2018 code in the first table and in no column of the second
XwalkRow(c10, c18, c19, t19) ==
    [soc_code_2010 |-> c10, oes_code_2018 |-> c18,
     oes_code_2019 |-> c19, oes_title_2019 |-> t19]
PipelineXwalks ==
    {<<XwalkRow("15-1131", "15-1132", "15-1251", "Computer Programmers")>>,
     <<XwalkRow("15-1131", "15-1256", "15-1251", "Computer Programmers")>>}

\* the peer lookup tables: one row for the area of the lookup; its label may be
\* one of the tokens of null_replace or an empty cell
PeerLabels == {"Peer MSA", "*"}
MsaTables ==
    {<<[area |-> "28140", peer_type |-> p]>> : p \in PeerLabels \cup {NaN}}

(***************************************************************************)
(* clean_bls: the body of the loop over the input files (lines 188-208)    *)
(***************************************************************************)
OutputColumns == {"report_year", "area", "peer_type", "oes_code_2019",
                  "oes_title_2019", "o_group", "src"}

\* df['report_year'] = report_year; df = df[[...]].reset_index(drop=True)
Project(df, report_year) ==
    [i \in DOMAIN df |->
        [c \in OutputColumns |->
            IF c = "report_year" THEN report_year ELSE df[i][c]]]

\* lines 194-205 on the normalised frame of one file
CleanFile(df, report_year, soc, msa) ==
    Project(map_nulls(map_peer_type(map_soc(df, report_year, soc), msa)), report_year)

\* the exception lines 192-205 raise on a file with these normalised columns (and
\* at least one row), "" when none: None[2] at line 192, None['1919'] at line 107,
\* a KeyError on an absent column at lines 117-127 and 151, Series.map(None) at
\* line 151
FileError(columns, year, soc, msa) ==
    IF year = <<>> THEN "report_year"
    ELSE IF soc = None THEN "soc_lookup"
    ELSE IF ~({"o_group", "occ_code", "occ_title", "area"} \subseteq columns) THEN "column"
    ELSE IF msa = None THEN "msa_lookup"
    ELSE ""

RECURSIVE RowsRead(_)
RowsRead(files) ==
    IF files = <<>> THEN 0 ELSE Len(Head(files).df) + RowsRead(Tail(files))

FilterNothing(df) == df

\* line 210
FilterCatchAll(df) ==
    LET Keep(r) == r["peer_type"] # CatchAll
    IN  SelectSeq(df, Keep)

SplitOnNotDetailed(df, level) ==
    LET Keep(r) == IF level = "major" THEN r["o_group"] # "detailed"
                   ELSE r["o_group"] = level
    IN  SelectSeq(df, Keep)

\* split_bls_ogroup, lines 226-228
SplitOn(df, level) ==
    LET Keep(r) == r["o_group"] = level
    IN  SelectSeq(df, Keep)

NoCall == [made |-> FALSE]

(***************************************************************************)
(* The run of process_bls                                                  *)
(***************************************************************************)
InitLocals ==
    /\ pc = "load_oes"
    /\ soc_lookup = None
    /\ msa_lookup = None
    /\ inputs = <<>>
    /\ df_merged = <<>>
    /\ bls_total = <<>>
    /\ bls_major = <<>>
    /\ bls_detailed = <<>>
    /\ error = ""
    /\ call = NoCall

Init ==
    /\ xwalk_file \in {File(t) : t \in PipelineXwalks} \cup {Missing, Malformed}
    /\ msa_file \in {File(t) : t \in MsaTables} \cup {Missing, Malformed}
    /\ InitLocals

\* line 184
LoadOesLookup ==
    /\ pc = "load_oes"
    /\ soc_lookup' = load_oes_lookup(xwalk_file)
    /\ pc' = "load_msa"
    /\ UNCHANGED <<xwalk_file, msa_file, msa_lookup, inputs, df_merged,
                   bls_total, bls_major, bls_detailed, error, call>>

\* line 185
LoadMsaLookup ==
    /\ pc = "load_msa"
    /\ msa_lookup' = load_msa_lookup(msa_file)
    /\ pc' = "loop"
    /\ UNCHANGED <<xwalk_file, msa_file, soc_lookup, inputs, df_merged,
                   bls_total, bls_major, bls_detailed, error, call>>

\* one iteration of the loop of line 187, on a file the glob yields
ProcessFile ==
    /\ pc = "loop"
    /\ RowsRead(inputs) < MaxRecords
    /\ \E name \in FileNames, header \in Headers :
          LET year == ParseYear(name)
              err == FileError(NormalisedColumns(header), year, soc_lookup, msa_lookup)
          IN  IF err # ""
              THEN /\ pc' = "aborted"
                   /\ error' = err
                   /\ UNCHANGED <<inputs, df_merged>>
              ELSE \E rows \in NonEmptySeqsUpTo(DataRows, MaxRecords - RowsRead(inputs)) :
                      LET df == much_consistency(read_excel(header, rows, Len(inputs) + 1))
                      IN  /\ inputs' = Append(inputs, [name |-> name, df |-> df])
                          /\ df_merged' = df_merged \o
                                 CleanFile(df, year[1], soc_lookup, msa_lookup)
                          /\ UNCHANGED <<pc, error>>
    /\ UNCHANGED <<xwalk_file, msa_file, soc_lookup, msa_lookup,
                   bls_total, bls_major, bls_detailed, call>>

\* the glob is exhausted: lines 210-213.  With no input file df_merged is the
\* empty pd.DataFrame() of line 180 and df_merged['peer_type'] raises KeyError
CleanBlsReturn ==
    /\ pc = "loop"
    /\ IF inputs = <<>>
       THEN /\ pc' = "aborted"
            /\ error' = "no_files"
            /\ UNCHANGED df_merged
       ELSE /\ df_merged' = FilterCatchAll(df_merged)
            /\ pc' = "cleaned"
            /\ UNCHANGED error
    /\ UNCHANGED <<xwalk_file, msa_file, soc_lookup, msa_lookup, inputs,
                   bls_total, bls_major, bls_detailed, call>>

\* process_bls lines 243-248
SplitBlsOgroup ==
    /\ pc = "cleaned"
    /\ bls_total' = SplitOn(df_merged, "total")
    /\ bls_major' = SplitOn(df_merged, "major")
    /\ bls_detailed' = SplitOn(df_merged, "detailed")
    /\ pc' = "done"
    /\ UNCHANGED <<xwalk_file, msa_file, soc_lookup, msa_lookup, inputs,
                   df_merged, error, call>>

Next ==
    \/ LoadOesLookup
    \/ LoadMsaLookup
    \/ ProcessFile
    \/ CleanBlsReturn
    \/ SplitBlsOgroup

Spec == Init /\ [][Next]_vars

(***************************************************************************)
(* Direct calls of map_soc, over the crosswalk tables and report years     *)
(***************************************************************************)
\* the rows of a crosswalk table: each 2010 and each 2018 code, against one
\* current code or an empty cell
Titles == {"Computer Programmers"}
XwalkRows ==
    {XwalkRow(c10, c18, c19, t) :
        c10 \in DetailedCodes, c18 \in DetailedCodes,
        c19 \in {"15-1132", NaN}, t \in Titles}
XwalkTables == SeqsUpTo(XwalkRows, MaxXwalkRows)

Years == (2014 - YearMargin) .. (2019 + YearMargin)

CallRows ==
    {[area |-> "28140", occ_code |-> c, occ_title |-> OccTitle, o_group |-> g] :
        c \in DetailedCodes, g \in {"total", "major", "detailed"}}

InitMapSoc ==
    /\ xwalk_file \in {File(t) : t \in XwalkTables} \cup {Missing}
    /\ msa_file = Missing
    /\ InitLocals

\* map_soc(df, report_year, soc_lookup) on the crosswalk line 184 loaded
CallMapSoc ==
    /\ pc = "load_msa"
    /\ IF soc_lookup = None
       THEN /\ pc' = "aborted"
            /\ error' = "soc_lookup"
            /\ UNCHANGED call
       ELSE /\ \E year \in Years, rows \in NonEmptySeqsUpTo(CallRows, MaxBatch) :
                  LET df == read_excel(HeaderLower, rows, 1)
                  IN  call' = [made |-> TRUE,
                               report_year |-> year,
                               soc_mappings |-> SelectGeneration(year),
                               df |-> df,
                               df_f |-> map_soc(df, year, soc_lookup)]
            /\ pc' = "called"
            /\ UNCHANGED error
    /\ UNCHANGED <<xwalk_file, msa_file, soc_lookup, msa_lookup, inputs, df_merged,
                   bls_total, bls_major, bls_detailed>>

NextMapSoc ==
    \/ LoadOesLookup
    \/ CallMapSoc

SpecMapSoc == InitMapSoc /\ [][NextMapSoc]_vars

(***************************************************************************)
(* Properties of map_soc, checked under SpecMapSoc                         *)
(***************************************************************************)
\* the row of the frame handed to map_soc that a row of its result comes from
CallInput(r) == call.df[r["src"][2]]

\* the value a dict holds at a code, NaN when the code is no key of it
ValueAt(d, code) == IF code \in DOMAIN d THEN d[code] ELSE NaN

\* C1: every detailed row gets the value of the mapping selected for the year at
\* its occ_code when that value is not null, else the value of the '1819' mapping
\* at its occ_code, else null; and every row handed to map_soc is in its result
\* exactly once, a detailed row with a null code included.
C1_DetailedCodeFromSelectedThenFallback ==
    call.made =>
        /\ Len(call.df_f) = Len(call.df)
        /\ \A i \in DOMAIN call.df :
               \E j \in DOMAIN call.df_f : call.df_f[j]["src"] = call.df[i]["src"]
        /\ \A j \in DOMAIN call.df_f :
               LET r == call.df_f[j]
                   occ == CallInput(r)["occ_code"]
                   primary == ValueAt(soc_lookup[call.soc_mappings], occ)
                   fallback == ValueAt(soc_lookup["1819"], occ)
               IN  r["o_group"] = "detailed" =>
                       r["oes_code_2019"] = IF primary # NaN THEN primary ELSE fallback

\* C1 witness: one call returns a detailed row whose code comes from the fallback
\* mapping and a detailed row that neither mapping matches, kept with a null code
C1_Witness ==
    /\ call.made
    /\ call.soc_mappings # "1819"
    /\ \E i, j \in DOMAIN call.df_f :
           /\ call.df_f[i]["o_group"] = "detailed"
           /\ call.df_f[j]["o_group"] = "detailed"
           /\ ValueAt(soc_lookup[call.soc_mappings], CallInput(call.df_f[i])["occ_code"]) = NaN
           /\ call.df_f[i]["oes_code_2019"] # NaN
           /\ call.df_f[j]["oes_code_2019"] = NaN

\* C2 (as claimed): every year up to 2016 selects '1019', 2017-2018 select '1819',
\* every year from 2019 selects '1919'.
C2_EveryYearUpToCutoffIsLegacy ==
    call.made =>
        /\ call.report_year <= 2016 => call.soc_mappings = "1019"
        /\ call.report_year \in 2017..2018 => call.soc_mappings = "1819"
        /\ call.report_year >= 2019 => call.soc_mappings = "1919"

\* C2 (amended): the years 2014-2016 select '1019', 2017-2018 select '1819', every
\* year from 2019 selects '1919', and every year before 2014 selects the default,
\* the identity map '1919'.
C2_BandsWithIdentityDefault ==
    call.made =>
        /\ call.report_year \in 2014..2016 => call.soc_mappings = "1019"
        /\ call.report_year \in 2017..2018 => call.soc_mappings = "1819"
        /\ call.report_year >= 2019 => call.soc_mappings = "1919"
        /\ call.report_year < 2014 => call.soc_mappings = "1919"

\* C2 witness: a call for a year before 2014 whose detailed row has a code that only
\* the legacy map knows: the identity map is applied to it
C2_Witness ==
    /\ call.made
    /\ call.report_year < 2014
    /\ call.soc_mappings = "1919"
    /\ \E j \in DOMAIN call.df_f :
           /\ call.df_f[j]["o_group"] = "detailed"
           /\ CallInput(call.df_f[j])["occ_code"] \in DOMAIN soc_lookup["1019"]
           /\ CallInput(call.df_f[j])["occ_code"] \notin DOMAIN soc_lookup["1919"]

\* C3: the title of every detailed row is the value of soc_lookup['19'] at the
\* row's assigned code, and null when the assigned code is null.
C3_TitleFromTitleMap ==
    call.made =>
        \A j \in DOMAIN call.df_f :
            LET r == call.df_f[j]
            IN  r["o_group"] = "detailed" =>
                    r["oes_title_2019"] =
                        IF r["oes_code_2019"] = NaN
                        THEN NaN
                        ELSE ValueAt(soc_lookup["19"], r["oes_code_2019"])

\* C4: every row that is not detailed keeps its occ_code as its code, whatever the
\* year and the crosswalk.
C4_TotalsPassThrough ==
    call.made =>
        \A j \in DOMAIN call.df_f :
            LET r == call.df_f[j]
            IN  r["o_group"] # "detailed" => r["oes_code_2019"] = CallInput(r)["occ_code"]

\* C4 witness: a total or major row whose occ_code the selected mapping would have
\* changed and a detailed row of the same code that it did change
C4_Witness ==
    /\ call.made
    /\ \E i, j \in DOMAIN call.df_f :
           /\ call.df_f[i]["o_group"] # "detailed"
           /\ call.df_f[j]["o_group"] = "detailed"
           /\ CallInput(call.df_f[i])["occ_code"] = CallInput(call.df_f[j])["occ_code"]
           /\ call.df_f[j]["oes_code_2019"] # CallInput(call.df_f[j])["occ_code"]
           /\ call.df_f[i]["oes_code_2019"] = CallInput(call.df_f[i])["occ_code"]

(***************************************************************************)
(* Properties of the run of process_bls, checked under Spec                *)
(***************************************************************************)
Range(f) == {f[i] : i \in DOMAIN f}
SrcSet(df) == {df[i]["src"] : i \in DOMAIN df}
Partitions == <<bls_total, bls_major, bls_detailed>>

\* the rows of the processed input files, as normalised
InputRowSrcs == UNION {SrcSet(inputs[n].df) : n \in DOMAIN inputs}
InputRow(src) == inputs[src[1]].df[src[2]]

\* the number of rows of a frame that come from one row of an input file
Occurrences(df, src) == Cardinality({i \in DOMAIN df : df[i]["src"] = src})

\* C5: once the peer classifier has run peer_type is never null: in the merged
\* frame and in every output frame it is a value of the peer lookup or the
\* catch-all label.
C5_PeerTypeNeverNull ==
    msa_lookup # None =>
        \A df \in {df_merged, bls_total, bls_major, bls_detailed} :
            \A i \in DOMAIN df :
                /\ df[i]["peer_type"] # NaN
                /\ df[i]["peer_type"] \in (Range(msa_lookup) \ {NaN}) \cup {CatchAll}

\* C6 (as claimed): every row of the merged frame, whatever its o_group, is in
\* exactly one of the three output frames, and no output frame holds a row that
\* is not in the merged frame.
C6_PartitionsCoverMerged ==
    pc = "done" =>
        /\ \A k \in 1..3 : Range(Partitions[k]) \subseteq Range(df_merged)
        /\ \A i \in DOMAIN df_merged :
               Occurrences(bls_total, df_merged[i]["src"])
               + Occurrences(bls_major, df_merged[i]["src"])
               + Occurrences(bls_detailed, df_merged[i]["src"]) = 1

\* C6 (amended): the three output frames are pairwise disjoint and hold rows of the
\* merged frame only; a merged row whose o_group is total, major or detailed is in
\* exactly one of them, and a merged row of any other o_group is in none.
C6_PartitionsCoverThreeLevels ==
    pc = "done" =>
        /\ \A k \in 1..3 : Range(Partitions[k]) \subseteq Range(df_merged)
        /\ \A k, l \in 1..3 : k # l => SrcSet(Partitions[k]) \cap SrcSet(Partitions[l]) = {}
        /\ \A i \in DOMAIN df_merged :
               Occurrences(bls_total, df_merged[i]["src"])
               + Occurrences(bls_major, df_merged[i]["src"])
               + Occurrences(bls_detailed, df_merged[i]["src"])
               = IF df_merged[i]["o_group"] \in {"total", "major", "detailed"} THEN 1 ELSE 0

\* C6 witness: the run ends with a merged row of another o_group next to rows of
\* two of the three levels
C6_Witness ==
    /\ pc = "done"
    /\ \E i \in DOMAIN df_merged : df_merged[i]["o_group"] = "minor"
    /\ bls_detailed # <<>>
    /\ bls_total # <<>> \/ bls_major # <<>>

\* the peer_type the claim expects the filter to keep a row for: the area has a
\* label in the lookup and the label is not the catch-all label
HasOtherPeerType(row) ==
    /\ row["area"] \in DOMAIN msa_lookup
    /\ msa_lookup[row["area"]] \notin {NaN, CatchAll}

\* C7: while files are being processed every row of every processed file is in the
\* merged frame, whatever its peer_type; after the filter no row of the merged
\* frame or of an output frame has the catch-all label, and every row with another
\* peer_type is still in the merged frame.
C7_FilterOnceAfterMerge ==
    /\ pc = "loop" =>
           /\ Len(df_merged) = RowsRead(inputs)
           /\ SrcSet(df_merged) = InputRowSrcs
    /\ pc \in {"cleaned", "done"} =>
           /\ \A df \in {df_merged, bls_total, bls_major, bls_detailed} :
                  \A i \in DOMAIN df : df[i]["peer_type"] # CatchAll
           /\ \A src \in InputRowSrcs :
                  Occurrences(df_merged, src) = IF HasOtherPeerType(InputRow(src)) THEN 1 ELSE 0

\* C7 witness: two files were merged, a row of the first had the catch-all label
\* until the filter ran, and rows of both files are left after it
C7_Witness ==
    /\ pc = "done"
    /\ Len(inputs) >= 2
    /\ \E src \in InputRowSrcs : src[1] = 1 /\ ~HasOtherPeerType(InputRow(src))
    /\ \E i, j \in DOMAIN df_merged : df_merged[i]["src"][1] = 1 /\ df_merged[j]["src"][1] = 2

\* C8: a file whose name yields no report year, or that lacks an expected column,
\* does not end the run: no exception of that file escapes clean_bls.
C8_FileFailureIsIsolated ==
    soc_lookup # None /\ msa_lookup # None => error \notin {"report_year", "column"}

\* C9: a missing or malformed reference file makes the loader return None and
\* does not end the run: no exception from the absent lookup escapes clean_bls.
C9_MissingLookupDoesNotAbort ==
    /\ pc # "load_oes" /\ xwalk_file.state # "ok" => soc_lookup = None
    /\ pc \notin {"load_oes", "load_msa"} /\ msa_file.state # "ok" => msa_lookup = None
    /\ error \notin {"soc_lookup", "msa_lookup"}

\* two rows of a frame that come from the same file are in the order of the file
InFileOrder(df, i, j) ==
    df[i]["src"][1] = df[j]["src"][1] /\ i < j => df[i]["src"][2] < df[j]["src"][2]

\* the mapping selected for the file of an input row holds a non-null code for it
PrimaryMatched(src) ==
    LET year == ParseYear(inputs[src[1]].name)[1]
        code == ValueAt(soc_lookup[SelectGeneration(year)], InputRow(src)["occ_code"])
    IN  code # NaN

\* C10 (as claimed): in each output frame the rows of one input file are in the
\* order they have in that file.
C10_FileOrderInEveryPartition ==
    pc = "done" =>
        \A k \in 1..3 :
            \A i, j \in DOMAIN Partitions[k] : InFileOrder(Partitions[k], i, j)

\* C10 (amended): in the total and major frames the rows of one input file are in
\* the order of the file. In the detailed frame the rows of one file that the
\* selected mapping matched come first, in file order, followed by the rows it
\* left unmatched, in file order.
C10_FileOrderWithinMatchedAndUnmatched ==
    pc = "done" =>
        /\ \A i, j \in DOMAIN bls_total : InFileOrder(bls_total, i, j)
        /\ \A i, j \in DOMAIN bls_major : InFileOrder(bls_major, i, j)
        /\ \A i, j \in DOMAIN bls_detailed :
               LET a == bls_detailed[i]["src"]
                   b == bls_detailed[j]["src"]
               IN  a[1] = b[1] /\ i < j =>
                       /\ PrimaryMatched(a) = PrimaryMatched(b) => a[2] < b[2]
                       /\ ~(~PrimaryMatched(a) /\ PrimaryMatched(b))

\* C10 witness: a detailed row stands in the detailed frame before a row of the
\* same file that precedes it in the file
C10_Witness ==
    /\ pc = "done"
    /\ \E i, j \in DOMAIN bls_detailed :
           /\ i < j
           /\ bls_detailed[i]["src"][1] = bls_detailed[j]["src"][1]
           /\ bls_detailed[i]["src"][2] > bls_detailed[j]["src"][2]

====
